---- MODULE Spec2Model ----
(***************************************************************************)
(* Model of the translation pipeline of src/translator.py and of its       *)
(* caller run_job in src/fastapi_app.py.                                   *)
(*                                                                         *)
(* Five specifications share this module:                                  *)
(*   SpecRetry  one call of translate_text_with_quality, with a log of     *)
(*              every request, assessment and backoff wait it performs;    *)
(*   SpecMask   _mask_text followed by _unmask_text on character strings;  *)
(*   Spec       process_enhanced_translation: the tasks, the semaphore,    *)
(*              asyncio.as_completed, and run_job, the consumer of the     *)
(*              generator, with its Job;                                   *)
(*   SpecLive   Spec with the fairness of the event loop;                  *)
(*   SpecReassembly  the reassembly loop and the save, entry by entry.     *)
(* A specification leaves the variables of the others at their initial     *)
(* values.                                                                 *)
(***************************************************************************)
EXTENDS Integers, Sequences, FiniteSets, TLC

VARIABLES
    call,       \* SpecRetry: the locals of translate_text_with_quality
    log,        \* SpecRetry: what the call has awaited so far, in order
    codec,      \* SpecMask: input and results of _mask_text/_unmask_text
    pipe,       \* Spec: the generator process_enhanced_translation
    task,       \* Spec: per segment, the translate_task coroutine
    semaphore,  \* Spec: asyncio.Semaphore(self.concurrency_limit)
    doneq,      \* Spec: as_completed's queue of finished tasks
    finished,   \* Spec: the segments in the order their tasks finished
    job         \* Spec: the Job that run_job drives (src/fastapi_app.py)

vars == <<call, log, codec, pipe, task, semaphore, doneq, finished, job>>

\* The values of the variables a specification does not use.
CallIdle == [pc |-> "idle"]
PipeIdle == [pc |-> "idle"]
SemaphoreIdle == [value |-> 0, waiters |-> <<>>, woken |-> {}]
JobIdle == [status |-> "none"]

(***************************************************************************)
(* EnhancedTranslator.__init__                                             *)
(***************************************************************************)
quality_threshold == 30
max_retries == 3

Min(a, b) == IF a < b THEN a ELSE b
Max(a, b) == IF a > b THEN a ELSE b

RECURSIVE Pow2(_)
Pow2(n) == IF n = 0 THEN 1 ELSE 2 * Pow2(n - 1)

(***************************************************************************)
(* translate_text_with_quality and validate_translation_quality            *)
(*                                                                         *)
(* A call is the record of the coroutine's locals:                         *)
(*   text      the segment text passed in                                  *)
(*   attempt   the loop variable                                           *)
(*   pc        "request"  awaiting chat.completions.create (line 153)      *)
(*             "assess"   awaiting validate_translation_quality (line 163) *)
(*             "backoff"  awaiting asyncio.sleep (line 172)                *)
(*             "returned" the coroutine has returned ret                   *)
(*   translated_text   line 157's value on the current attempt            *)
(*   quality_score     line 163's value on the current attempt            *)
(*   ret       the returned pair <<text, score>>                           *)
(***************************************************************************)
NoText == <<"<none>">>
NoRet == <<NoText, -1>>

\* What the awaited translation request can produce: an exception (the
\* request failed, or the response had no content), or the text that
\* line 157 binds to translated_text, empty or not.
TranslatedTexts == {<<>>, <<"X">>, <<"Y">>}
Raised == [ok |-> FALSE, text |-> <<>>]
Returned(t) == [ok |-> TRUE, text |-> t]

\* What the awaited assessment request can produce (lines 178-183), once
\* read by line 183: an exception ("raise"), a response without any digit
\* ("nodigits"), or a response whose first run of digits reads n
\* ("digits").  RawScores: the numbers the responses of AssessorResponses
\* hold.
RawScores == {0, 20, 29, 30, 31, 40, 41, 95}

\* validate_translation_quality: the clamp of line 184, 20 on any exception
\* (lines 185-186).
\* (validate_translation_quality_unclamped: the mutation "return score".)
validate_translation_quality_unclamped(reply) ==
    IF reply.kind = "digits" THEN reply.n ELSE 20

\* (validate_translation_quality_failed_passes: the mutation "a failed
\* assessment counts as passed".)
validate_translation_quality_failed_passes(reply) ==
    IF reply.kind = "digits" THEN Max(0, Min(40, reply.n)) ELSE quality_threshold

validate_translation_quality(reply) ==
    IF reply.kind = "digits" THEN Max(0, Min(40, reply.n)) ELSE 20

LastAttempt(c) == c.attempt = max_retries - 1

\* Lines 141-156 for a given attempt: the loop body up to the await of the
\* translation request; line 173 when the loop is exhausted.
EnterAttempt(c, n) ==
    IF n < max_retries
    THEN [c EXCEPT !.attempt = n, !.pc = "request"]
    ELSE [c EXCEPT !.pc = "returned", !.ret = <<c.text, 0>>]

\* The call, up to its first await.
StartCall(text, user_terms) ==
    EnterAttempt([text |-> text, user_terms |-> user_terms,
                  attempt |-> 0, pc |-> "request",
                  translated_text |-> NoText, quality_score |-> -1,
                  ret |-> NoRet], 0)

\* Lines 157-163: the translation request returned translated_text = t.
\* (TranslationReturnsNoRetry: the mutation "an empty result falls back at
\* once"; TranslationReturnsEmpty: the mutation "return translated_text, 0".)
TranslationReturnsNoRetry(c, t) ==
    IF t = <<>>
    THEN [c EXCEPT !.pc = "returned", !.ret = <<c.text, 0>>, !.translated_text = t]
    ELSE [c EXCEPT !.pc = "assess", !.translated_text = t]

TranslationReturnsEmpty(c, t) ==
    IF t = <<>>
    THEN IF LastAttempt(c)
         THEN [c EXCEPT !.pc = "returned", !.ret = <<t, 0>>, !.translated_text = t]
         ELSE EnterAttempt([c EXCEPT !.translated_text = t], c.attempt + 1)
    ELSE [c EXCEPT !.pc = "assess", !.translated_text = t]

TranslationReturns(c, t) ==
    IF t = <<>>
    THEN IF LastAttempt(c)
         THEN [c EXCEPT !.pc = "returned", !.ret = <<c.text, 0>>, !.translated_text = t]
         ELSE EnterAttempt([c EXCEPT !.translated_text = t], c.attempt + 1)
    ELSE [c EXCEPT !.pc = "assess", !.translated_text = t]

\* Lines 168-172: the translation request raised.
\* (TranslationFailsNoFallback: the mutation without line 170.)
TranslationFailsNoFallback(c) ==
    [c EXCEPT !.pc = "backoff"]

TranslationFails(c) ==
    IF LastAttempt(c)
    THEN [c EXCEPT !.pc = "returned", !.ret = <<c.text, 0>>]
    ELSE [c EXCEPT !.pc = "backoff"]

\* Lines 163-167 and 172: the assessment returned quality_score.
\* (AssessReturnsDiscardLow: the mutation "a low final score falls back to
\* the original"; AssessReturnsStrict: the mutation "> for >=".)
AssessReturnsDiscardLow(c, quality_score) ==
    LET d == [c EXCEPT !.quality_score = quality_score] IN
    IF quality_score >= quality_threshold
    THEN [d EXCEPT !.pc = "returned", !.ret = <<c.translated_text, quality_score>>]
    ELSE IF LastAttempt(c)
         THEN [d EXCEPT !.pc = "returned", !.ret = <<c.text, 0>>]
         ELSE [d EXCEPT !.pc = "backoff"]

AssessReturnsStrict(c, quality_score) ==
    LET d == [c EXCEPT !.quality_score = quality_score] IN
    IF quality_score > quality_threshold \/ LastAttempt(c)
    THEN [d EXCEPT !.pc = "returned", !.ret = <<c.translated_text, quality_score>>]
    ELSE [d EXCEPT !.pc = "backoff"]

AssessReturns(c, quality_score) ==
    LET d == [c EXCEPT !.quality_score = quality_score] IN
    IF quality_score >= quality_threshold \/ LastAttempt(c)
    THEN [d EXCEPT !.pc = "returned", !.ret = <<c.translated_text, quality_score>>]
    ELSE [d EXCEPT !.pc = "backoff"]

\* Line 172 elapsed: the next iteration of the loop.
BackoffElapses(c) == EnterAttempt(c, c.attempt + 1)

\* Line 172's argument in tenths of a second: base_delay * 2 ** attempt
\* plus random.uniform(0, 1).
JitterTenths == {0, 5, 10}
BackoffDelay(attempt, jitter) == 10 * Pow2(attempt) + jitter

(***************************************************************************)
(* Character strings.  A text is a sequence of one-character strings, so   *)
(* that slicing, searching and replacing are computed as the code does.    *)
(***************************************************************************)
\* str.lower() on the characters the texts are built from; (?i) compares
\* characters by it.
Fold(c) == IF c = "A" THEN "a" ELSE IF c = "B" THEN "b" ELSE c

\* The character classes the code tests, on the characters the texts are
\* built from: str.isalpha and [a-zA-Z], \d, \s, and \w (letters, digits,
\* underscore).
IsAlpha(c) ==
    c \in {"a", "A", "b", "B", "C", "E", "N", "S", "T", "U", "X", "Y"}
IsDigit(c) == c \in {"0", "1", "2", "3", "4", "5", "6", "7", "8", "9"}
IsSpace(c) == c = " "
IsWordChar(c) == IsAlpha(c) \/ IsDigit(c) \/ c = "_"

\* text[s:e], with Python's 0-based half-open indices.
Slice(text, s, e) == SubSeq(text, s + 1, e)

\* \s* and \d* from offset p: the first offset >= p of text that holds no
\* space, no digit.
RECURSIVE SkipSpaces(_, _)
SkipSpaces(text, p) ==
    IF p < Len(text) /\ IsSpace(text[p + 1]) THEN SkipSpaces(text, p + 1) ELSE p

RECURSIVE SkipDigits(_, _)
SkipDigits(text, p) ==
    IF p < Len(text) /\ IsDigit(text[p + 1]) THEN SkipDigits(text, p + 1) ELSE p

DigitChars == <<"0", "1", "2", "3", "4", "5", "6", "7", "8", "9">>

\* str(n) of an index n >= 0.
RECURSIVE Decimal(_)
Decimal(n) ==
    IF n < 10 THEN <<DigitChars[n + 1]>>
    ELSE Decimal(n \div 10) \o <<DigitChars[(n % 10) + 1]>>

\* int(digits) of a run of decimal digits.
RECURSIVE IntOf(_)
IntOf(digits) ==
    IF digits = <<>> THEN 0
    ELSE 10 * IntOf(SubSeq(digits, 1, Len(digits) - 1))
           + (CHOOSE v \in 0..9 : DigitChars[v + 1] = digits[Len(digits)])

\* re.search(r'\d+', text) from offset p: the offset of the first digit at
\* or after p, Len(text) when there is none.
RECURSIVE SearchDigit(_, _)
SearchDigit(text, p) ==
    IF p >= Len(text) \/ IsDigit(text[p + 1]) THEN p ELSE SearchDigit(text, p + 1)

\* Lines 178-183: what line 183 reads from the outcome of the assessment
\* request, an exception or the content of the response.
AssessReply(response) ==
    IF ~response.ok THEN [kind |-> "raise", n |-> 0]
    ELSE LET s == SearchDigit(response.text, 0) IN
         IF s = Len(response.text) THEN [kind |-> "nodigits", n |-> 0]
         ELSE [kind |-> "digits",
               n |-> IntOf(Slice(response.text, s, SkipDigits(response.text, s)))]

\* The outcomes of the assessment request: an exception, the numbers of
\* RawScores alone, and responses that are empty, hold no number, a signed
\* number, a number among words, or two numbers.
ScoreTexts ==
    {Decimal(n) : n \in RawScores}
        \cup {<<>>, <<"n", "/", "a">>, <<"-", "5">>, <<"S", " ", "9", "5", " ">>,
              <<"4", "1", "/", "4", "0">>}
AssessorResponses == {Raised} \cup {Returned(t) : t \in ScoreTexts}
AssessorReplies == {AssessReply(response) : response \in AssessorResponses}

\* old occurs in text at 0-based offset p.
OccursAt(text, old, p) ==
    /\ p + Len(old) <= Len(text)
    /\ Slice(text, p, p + Len(old)) = old

\* str.replace(old, new): every non-overlapping occurrence, left to right.
RECURSIVE ReplaceFrom(_, _, _, _)
ReplaceFrom(text, old, new, p) ==
    IF p >= Len(text) THEN <<>>
    ELSE IF OccursAt(text, old, p)
         THEN new \o ReplaceFrom(text, old, new, p + Len(old))
         ELSE <<text[p + 1]>> \o ReplaceFrom(text, old, new, p + 1)

Replace(text, old, new) ==
    IF old = <<>> THEN text ELSE ReplaceFrom(text, old, new, 0)

(***************************************************************************)
(* _find_user_term_spans                                                   *)
(***************************************************************************)
\* The pattern of line 52 (anchored) or of line 55 (not anchored) matches
\* term at 0-based offset p of text.
MatchAt(text, term, p, anchored) ==
    /\ p + Len(term) <= Len(text)
    /\ \A i \in 1..Len(term) : Fold(text[p + i]) = Fold(term[i])
    /\ anchored =>
         /\ p = 0 \/ ~IsWordChar(text[p])
         /\ p + Len(term) = Len(text) \/ ~IsWordChar(text[p + Len(term) + 1])

\* pattern.finditer(text): the start offsets of the non-overlapping matches,
\* scanning from offset p.
RECURSIVE FindIter(_, _, _, _)
FindIter(text, term, p, anchored) ==
    IF p + Len(term) > Len(text) THEN <<>>
    ELSE IF MatchAt(text, term, p, anchored)
         THEN <<p>> \o FindIter(text, term, p + Len(term), anchored)
         ELSE FindIter(text, term, p + 1, anchored)

\* Lines 52-56: the anchored matches, or the unanchored ones when there is
\* no anchored match.
TermMatches(text, term) ==
    LET anchored == FindIter(text, term, 0, TRUE) IN
    IF anchored # <<>> THEN anchored ELSE FindIter(text, term, 0, FALSE)

\* Lines 57-63 for the matches of one term from the k-th on: acc is
\* [spans, occupied].
RECURSIVE ClaimMatches(_, _, _, _, _)
ClaimMatches(text, term, starts, k, acc) ==
    IF k > Len(starts) THEN acc
    ELSE LET s == starts[k]
             e == s + Len(term)
         IN IF \E i \in s..(e - 1) : i \in acc.occupied
            THEN ClaimMatches(text, term, starts, k + 1, acc)
            ELSE ClaimMatches(text, term, starts, k + 1,
                     [spans |-> Append(acc.spans,
                                       [s |-> s, e |-> e, v |-> Slice(text, s, e)]),
                      occupied |-> acc.occupied \cup s..(e - 1)])

\* Lines 50-63: the loop over sorted_terms from the k-th term on.
RECURSIVE ClaimTerms(_, _, _, _)
ClaimTerms(text, sorted_terms, k, acc) ==
    IF k > Len(sorted_terms) THEN acc
    ELSE ClaimTerms(text, sorted_terms, k + 1,
             ClaimMatches(text, sorted_terms[k],
                          TermMatches(text, sorted_terms[k]), 1, acc))

\* list.sort(key=start), stable: insertion of x after the elements that do
\* not start later.
RECURSIVE InsertByStart(_, _)
InsertByStart(sorted, x) ==
    IF sorted = <<>> THEN <<x>>
    ELSE IF Head(sorted).s <= x.s
         THEN <<Head(sorted)>> \o InsertByStart(Tail(sorted), x)
         ELSE <<x>> \o sorted

RECURSIVE SortByStart(_)
SortByStart(spans) ==
    IF spans = <<>> THEN <<>>
    ELSE InsertByStart(SortByStart(SubSeq(spans, 1, Len(spans) - 1)),
                       spans[Len(spans)])

Range(seq) == {seq[i] : i \in 1..Len(seq)}

\* (SortedTermOrdersShortestFirst: the mutation without reverse=True.)
SortedTermOrdersShortestFirst(user_terms) ==
    LET terms == Range(user_terms) \ {<<>>} IN
    {order \in [1..Cardinality(terms) -> terms] :
        /\ \A i, j \in 1..Cardinality(terms) : i # j => order[i] # order[j]
        /\ \A i, j \in 1..Cardinality(terms) :
               i < j => Len(order[i]) <= Len(order[j])}

\* Line 49: the orders sorted() can give the set of the non-empty terms:
\* longest first, terms of equal length in the set's iteration order.
SortedTermOrders(user_terms) ==
    LET terms == Range(user_terms) \ {<<>>} IN
    {order \in [1..Cardinality(terms) -> terms] :
        /\ \A i, j \in 1..Cardinality(terms) : i # j => order[i] # order[j]
        /\ \A i, j \in 1..Cardinality(terms) :
               i < j => Len(order[i]) >= Len(order[j])}

\* _find_user_term_spans, given the order line 49 produced.
find_user_term_spans(text, user_terms, sorted_terms) ==
    IF user_terms = <<>> \/ text = <<>> THEN <<>>
    ELSE SortByStart(ClaimTerms(text, sorted_terms, 1,
                                [spans |-> <<>>, occupied |-> {}]).spans)

(***************************************************************************)
(* _find_spacy_entity_spans                                                *)
(***************************************************************************)
\* Lines 75-81 on the entities the detector reported (those with an allowed
\* label): the ones inside the text, as spans sorted by start.
find_spacy_entity_spans(text, ents) ==
    IF text = <<>> THEN <<>>
    ELSE LET Inside(x) == 0 <= x.s /\ x.s < x.e /\ x.e <= Len(text)
             Span(x) == [s |-> x.s, e |-> x.e, v |-> Slice(text, x.s, x.e)]
             kept == SelectSeq(ents, Inside)
         IN SortByStart([k \in 1..Len(kept) |-> Span(kept[k])])

(***************************************************************************)
(* _mask_text and _unmask_text                                             *)
(***************************************************************************)
\* Line 101: f"<<UT{ut_idx}>>" or f"<<NE{ne_idx}>>".
Token(kind, idx) ==
    <<"<", "<">> \o (IF kind = "UT" THEN <<"U", "T">> ELSE <<"N", "E">>)
        \o Decimal(idx) \o <<">", ">">>

\* token_map[token] = v on a dict kept in insertion order.
DictSet(map, key, value) ==
    IF \E k \in 1..Len(map) : map[k].token = key
    THEN [k \in 1..Len(map) |->
            IF map[k].token = key THEN [token |-> key, original |-> value]
            ELSE map[k]]
    ELSE Append(map, [token |-> key, original |-> value])

\* Lines 98-106 from the k-th span of combined on; m holds the locals
\* parts (joined), token_map, cursor, ut_idx and ne_idx, and issued lists
\* the spans that reached line 101 with the token each was given.
RECURSIVE MaskLoop(_, _, _, _)
MaskLoop(text, combined, k, m) ==
    IF k > Len(combined) THEN m
    ELSE LET sp == combined[k]
             token == Token(sp.kind, IF sp.kind = "UT" THEN m.ut_idx ELSE m.ne_idx)
         IN IF sp.s < m.cursor
            THEN MaskLoop(text, combined, k + 1, m)
            ELSE MaskLoop(text, combined, k + 1,
                     [parts |-> m.parts \o Slice(text, m.cursor, sp.s) \o token,
                      issued |-> Append(m.issued,
                                        [s |-> sp.s, e |-> sp.e, v |-> sp.v,
                                         kind |-> sp.kind, token |-> token]),
                      token_map |-> DictSet(m.token_map, token, sp.v),
                      cursor |-> sp.e,
                      ut_idx |-> IF sp.kind = "UT" THEN m.ut_idx + 1 ELSE m.ut_idx,
                      ne_idx |-> IF sp.kind = "UT" THEN m.ne_idx ELSE m.ne_idx + 1])

\* (FilterSpacySpansNone: the mutation that keeps every entity span.)
FilterSpacySpansNone(spacy_spans, user_spans) == spacy_spans

\* Lines 89-92: the entity spans that intersect no user-term span.
FilterSpacySpans(spacy_spans, user_spans) ==
    LET Free(sp) == ~\E u \in Range(user_spans) : ~(sp.e <= u.s \/ sp.s >= u.e)
    IN SelectSeq(spacy_spans, Free)

\* _mask_text, given the order of line 49 and the detector's entities: the
\* pair returned, with the locals user_spans and spacy_spans and the spans
\* that were given a token.
mask_text(text, user_terms, sorted_terms, ents) ==
    IF text = <<>>
    THEN [masked |-> text, token_map |-> <<>>, user_spans |-> <<>>,
          spacy_spans |-> <<>>, issued |-> <<>>]
    ELSE LET user_spans == find_user_term_spans(text, user_terms, sorted_terms)
             spacy_spans == find_spacy_entity_spans(text, ents)
             filtered == FilterSpacySpans(spacy_spans, user_spans)
             Tag(spans, kind) ==
                 [k \in 1..Len(spans) |->
                     [s |-> spans[k].s, e |-> spans[k].e, v |-> spans[k].v,
                      kind |-> kind]]
             combined == SortByStart(Tag(user_spans, "UT") \o Tag(filtered, "NE"))
         IN IF combined = <<>>
            THEN [masked |-> text, token_map |-> <<>>, user_spans |-> user_spans,
                  spacy_spans |-> spacy_spans, issued |-> <<>>]
            ELSE LET m == MaskLoop(text, combined, 1,
                              [parts |-> <<>>, issued |-> <<>>, token_map |-> <<>>,
                               cursor |-> 0, ut_idx |-> 0, ne_idx |-> 0])
                 IN [masked |-> m.parts \o Slice(text, m.cursor, Len(text)),
                     token_map |-> m.token_map, user_spans |-> user_spans,
                     spacy_spans |-> spacy_spans, issued |-> m.issued]

\* sorted(token_map.items(), key=lambda x: -len(x[0])), stable.
RECURSIVE InsertByTokenLen(_, _)
InsertByTokenLen(sorted, x) ==
    IF sorted = <<>> THEN <<x>>
    ELSE IF Len(Head(sorted).token) >= Len(x.token)
         THEN <<Head(sorted)>> \o InsertByTokenLen(Tail(sorted), x)
         ELSE <<x>> \o sorted

RECURSIVE SortByTokenLen(_)
SortByTokenLen(map) ==
    IF map = <<>> THEN <<>>
    ELSE InsertByTokenLen(SortByTokenLen(SubSeq(map, 1, Len(map) - 1)),
                          map[Len(map)])

\* Lines 113-114 from the k-th item on.
RECURSIVE UnmaskLoop(_, _, _)
UnmaskLoop(text, items, k) ==
    IF k > Len(items) THEN text
    ELSE UnmaskLoop(Replace(text, items[k].token, items[k].original), items, k + 1)

unmask_text(text, token_map) ==
    IF token_map = <<>> \/ text = <<>> THEN text
    ELSE UnmaskLoop(text, SortByTokenLen(token_map), 1)

(***************************************************************************)
(* SpecMask: _mask_text on a text, then _unmask_text on its result.        *)
(*                                                                         *)
(* The texts are the concatenations of at most MaxPieces pieces; the       *)
(* pieces include the literal text of a placeholder.  The retain terms     *)
(* are lists of at most MaxTerms distinct members of TermPool or empty     *)
(* strings.  The detector reports at most MaxEntities entities, each       *)
(* running from the start of a word to the end of a word.                  *)
(***************************************************************************)
MaxPieces == 3
MaxTerms == 2
MaxEntities == 1

CodecPieces ==
    {<<"a">>, <<"A">>, <<"b">>, <<" ">>, Token("UT", 0), Token("NE", 0)}

TermPool == {<<"a">>, <<"a", "b">>}

RECURSIVE Texts(_)
Texts(n) ==
    IF n = 0 THEN {<<>>}
    ELSE Texts(n - 1) \cup {t \o piece : t \in Texts(n - 1), piece \in CodecPieces}

UserTermLists ==
    UNION {{terms \in [1..n -> TermPool \cup {<<>>}] :
               \A i, j \in 1..n : i # j => terms[i] # terms[j]} : n \in 0..MaxTerms}

WordStarts(text) ==
    {p \in 0..(Len(text) - 1) :
        IsWordChar(text[p + 1]) /\ (p = 0 \/ ~IsWordChar(text[p]))}
WordEnds(text) ==
    {e \in 1..Len(text) :
        IsWordChar(text[e]) /\ (e = Len(text) \/ ~IsWordChar(text[e + 1]))}

RECURSIVE SeqByStart(_)
SeqByStart(S) ==
    IF S = {} THEN <<>>
    ELSE LET first == CHOOSE x \in S : \A y \in S : x.s <= y.s
         IN <<first>> \o SeqByStart(S \ {first})

\* doc.ents: non-overlapping, in text order.
EntityLists(text) ==
    LET cands == {[s |-> s, e |-> e] : s \in WordStarts(text), e \in WordEnds(text)}
                    \cap {x \in [s : 0..Len(text), e : 0..Len(text)] : x.s < x.e}
    IN {SeqByStart(S) : S \in {S \in SUBSET cands :
            /\ Cardinality(S) <= MaxEntities
            /\ \A x, y \in S : x # y => (x.e <= y.s \/ y.e <= x.s)}}

CodecIdle ==
    [pc |-> "idle", text |-> <<>>, user_terms |-> <<>>, sorted_terms |-> <<>>,
     ents |-> <<>>, user_spans |-> <<>>, spacy_spans |-> <<>>, issued |-> <<>>,
     masked_text |-> <<>>, token_map |-> <<>>, unmasked |-> <<>>]

OthersIdleForMask ==
    /\ call = CallIdle
    /\ log = <<>>
    /\ pipe = PipeIdle
    /\ task = <<>>
    /\ semaphore = SemaphoreIdle
    /\ doneq = <<>>
    /\ finished = <<>>
    /\ job = JobIdle

InitMask ==
    /\ \E text \in Texts(MaxPieces), user_terms \in UserTermLists :
         \E sorted_terms \in SortedTermOrders(user_terms), ents \in EntityLists(text) :
            codec = [CodecIdle EXCEPT !.pc = "input", !.text = text,
                                      !.user_terms = user_terms,
                                      !.sorted_terms = sorted_terms,
                                      !.ents = ents]
    /\ OthersIdleForMask

\* Line 143: masked_text, token_map = self._mask_text(text, user_terms or []).
MaskText ==
    /\ codec.pc = "input"
    /\ LET r == mask_text(codec.text, codec.user_terms, codec.sorted_terms,
                          codec.ents)
       IN codec' = [codec EXCEPT !.pc = "masked", !.masked_text = r.masked,
                                 !.token_map = r.token_map,
                                 !.user_spans = r.user_spans,
                                 !.spacy_spans = r.spacy_spans,
                                 !.issued = r.issued]
    /\ UNCHANGED <<call, log, pipe, task, semaphore, doneq, finished, job>>

\* Line 157's self._unmask_text(..., token_map), on the masked text itself.
UnmaskText ==
    /\ codec.pc = "masked"
    /\ codec' = [codec EXCEPT !.pc = "unmasked",
                              !.unmasked = unmask_text(codec.masked_text,
                                                       codec.token_map)]
    /\ UNCHANGED <<call, log, pipe, task, semaphore, doneq, finished, job>>

NextMask ==
    \/ MaskText
    \/ UnmaskText

SpecMask == InitMask /\ [][NextMask]_vars

\* C9: round trip: once _unmask_text has been applied to the masked text
\* and token map that _mask_text produced for a text, the result is that
\* text.
C9_RoundTrip ==
    codec.pc = "unmasked" => codec.unmasked = codec.text

\* Two spans share at least one character position.
Intersects(x, y) == ~(x.e <= y.s \/ x.s >= y.e)

\* The value the token map holds for a token.
TokenValues(token_map, token) ==
    {token_map[k].original : k \in {k \in 1..Len(token_map) :
                                       token_map[k].token = token}}

\* C17: precedence: once _mask_text has run, no NE token was issued for a
\* range that intersects a user-term span, so an entity span that intersects
\* one is dropped whole, not truncated; and every user-term span was issued
\* a UT token for its full range, mapped to the text of that range.
C17_Precedence ==
    codec.pc \in {"masked", "unmasked"} =>
        /\ \A n \in Range(codec.issued), u \in Range(codec.user_spans) :
               n.kind = "NE" => ~Intersects(n, u)
        /\ \A sp \in Range(codec.spacy_spans) :
               (\E u \in Range(codec.user_spans) : Intersects(sp, u))
                   => ~\E n \in Range(codec.issued) :
                          n.kind = "NE" /\ Intersects(n, sp)
        /\ \A u \in Range(codec.user_spans) :
               \E n \in Range(codec.issued) :
                   /\ n.kind = "UT" /\ n.s = u.s /\ n.e = u.e
                   /\ TokenValues(codec.token_map, n.token)
                          = {Slice(codec.text, u.s, u.e)}

\* short occurs inside long and is shorter.
ProperSubstring(short, long) ==
    /\ short # <<>>
    /\ Len(short) < Len(long)
    /\ \E p \in 0..(Len(long) - Len(short)) : OccursAt(long, short, p)

C17_Witness ==
    /\ codec.pc = "masked"
    /\ \E sp \in Range(codec.spacy_spans), u \in Range(codec.user_spans) :
          Intersects(sp, u) /\ sp.s < u.s
    /\ \E n \in Range(codec.issued) : n.kind = "UT"

(***************************************************************************)
(* SpecRetry: one call of translate_text_with_quality.  log records every  *)
(* awaited operation when it completes: the translation requests with      *)
(* their outcome, the assessments with their score, the backoff waits      *)
(* with their delay.                                                       *)
(***************************************************************************)
RetryTexts == {<<"S">>, <<"X">>}
RetryTermLists == {<<>>, << <<"S">> >>}

\* Line 143 for the inputs of SpecRetry: _mask_text is a function of its
\* arguments (no entity detector is loaded), so every attempt of a call
\* obtains the masked text tabulated here.
MaskedContent ==
    [text \in RetryTexts, user_terms \in RetryTermLists |->
        mask_text(text, user_terms,
                  CHOOSE order \in SortedTermOrders(user_terms) : TRUE,
                  <<>>).masked]

\* (TranslationRequestCold: the mutation "temperature=0 on every attempt".)
TranslationRequestCold(c, outcome) ==
    [op |-> "translate", attempt |-> c.attempt,
     temperature |-> 0,
     addendum |-> IF c.attempt > 0 THEN c.attempt + 1 ELSE 0,
     user_terms |-> c.user_terms,
     content |-> MaskedContent[c.text, c.user_terms],
     outcome |-> outcome]

\* Lines 143-155 of the request the call c is awaiting: the temperature in
\* tenths, the attempt number the retry addendum names (0: no addendum),
\* the retain terms given to _mask_text at line 143 and the masked text
\* sent as the user message; outcome is what the request produced.
TranslationRequest(c, outcome) ==
    [op |-> "translate", attempt |-> c.attempt,
     temperature |-> IF c.attempt > 0 THEN 1 ELSE 0,
     addendum |-> IF c.attempt > 0 THEN c.attempt + 1 ELSE 0,
     user_terms |-> c.user_terms,
     content |-> MaskedContent[c.text, c.user_terms],
     outcome |-> outcome]

OthersIdleForRetry ==
    /\ codec = CodecIdle
    /\ pipe = PipeIdle
    /\ task = <<>>
    /\ semaphore = SemaphoreIdle
    /\ doneq = <<>>
    /\ finished = <<>>
    /\ job = JobIdle

InitRetry ==
    /\ \E text \in RetryTexts, user_terms \in RetryTermLists :
         call = StartCall(text, user_terms)
    /\ log = <<>>
    /\ OthersIdleForRetry

RetryTranslationReturns ==
    /\ call.pc = "request"
    /\ \E t \in TranslatedTexts :
         /\ call' = TranslationReturns(call, t)
         /\ log' = Append(log, TranslationRequest(call, Returned(t)))
    /\ UNCHANGED <<codec, pipe, task, semaphore, doneq, finished, job>>

RetryTranslationFails ==
    /\ call.pc = "request"
    /\ call' = TranslationFails(call)
    /\ log' = Append(log, TranslationRequest(call, Raised))
    /\ UNCHANGED <<codec, pipe, task, semaphore, doneq, finished, job>>

RetryAssessReturns ==
    /\ call.pc = "assess"
    /\ \E response \in AssessorResponses :
         LET reply == AssessReply(response)
             score == validate_translation_quality(reply)
         IN /\ call' = AssessReturns(call, score)
            /\ log' = Append(log, [op |-> "assess", attempt |-> call.attempt,
                                    response |-> response, reply |-> reply,
                                    score |-> score])
    /\ UNCHANGED <<codec, pipe, task, semaphore, doneq, finished, job>>

RetryBackoffElapses ==
    /\ call.pc = "backoff"
    /\ \E jitter \in JitterTenths :
         log' = Append(log, [op |-> "sleep", attempt |-> call.attempt,
                             delay |-> BackoffDelay(call.attempt, jitter)])
    /\ call' = BackoffElapses(call)
    /\ UNCHANGED <<codec, pipe, task, semaphore, doneq, finished, job>>

NextRetry ==
    \/ RetryTranslationReturns
    \/ RetryTranslationFails
    \/ RetryAssessReturns
    \/ RetryBackoffElapses

SpecRetry == InitRetry /\ [][NextRetry]_vars


(***************************************************************************)
(* Properties of translate_text_with_quality, checked under SpecRetry.     *)
(***************************************************************************)
Translations == {i \in 1..Len(log) : log[i].op = "translate"}
Assessments == {i \in 1..Len(log) : log[i].op = "assess"}

\* C3: translate_text_with_quality never lets an error escape: whatever the
\* requests and assessments do, the call is always either awaiting one of
\* its three operations within the allowed attempts, with a step to take,
\* or has returned a pair; the pair is the non-empty candidate of the
\* current attempt with its assessed score, or else the original segment
\* text with score 0.
C3_NeverRaisesAndFallsBack ==
    /\ call.pc \in {"request", "assess", "backoff", "returned"}
    /\ call.attempt \in 0..(max_retries - 1)
    /\ call.pc # "returned" => ENABLED NextRetry
    /\ call.pc = "returned" =>
         \/ call.ret = <<call.text, 0>>
         \/ /\ call.translated_text \in TranslatedTexts \ {<<>>}
            /\ call.ret = <<call.translated_text, call.quality_score>>

\* The call fell back to the original text after a failed assessment, a
\* low score, an empty result and a failed request.
C3_Witness ==
    /\ call.pc = "returned"
    /\ call.ret = <<call.text, 0>>
    /\ \E i \in Translations : log[i].outcome = Raised
    /\ \E i \in Translations : log[i].outcome = Returned(<<>>)
    /\ \E i \in Assessments : log[i].reply.kind = "raise"

\* C4: when the assessment of a non-empty candidate of attempt n returns,
\* the call returns at that step if and only if the score is at least
\* quality_threshold or n is the last attempt, and what it returns is that
\* candidate with the assessed score, never the original text.
C4_AcceptIffThresholdOrLast ==
    [][call.pc = "assess" =>
         /\ call.translated_text \in TranslatedTexts \ {<<>>}
         /\ call'.quality_score = log'[Len(log')].score
         /\ (call'.pc = "returned") <=>
               (call'.quality_score >= quality_threshold
                  \/ call.attempt = max_retries - 1)
         /\ call'.pc = "returned" =>
               call'.ret = <<call.translated_text, call'.quality_score>>
         /\ call'.pc # "returned" => call'.pc = "backoff"]_vars

\* A final-attempt candidate scoring below the threshold was returned.
C4_Witness ==
    /\ call.pc = "returned"
    /\ call.attempt = max_retries - 1
    /\ call.translated_text \in TranslatedTexts \ {<<>>}
    /\ call.translated_text # call.text
    /\ call.quality_score < quality_threshold
    /\ call.ret = <<call.translated_text, call.quality_score>>

\* C5: every translation request of an attempt n + 1 > 0 comes right after
\* a backoff wait of attempt n, of at least 1 * 2^n seconds and at most one
\* second of jitter more, whatever ended attempt n.
BackoffOf(n, e) ==
    /\ e.op = "sleep"
    /\ e.attempt = n
    /\ e.delay \in (10 * Pow2(n))..(10 * Pow2(n) + 10)

C5_BackoffBeforeEveryRetry ==
    /\ \A i \in Translations :
         log[i].attempt > 0 => i > 1 /\ BackoffOf(log[i].attempt - 1, log[i - 1])
    /\ (call.pc = "request" /\ call.attempt > 0) =>
         Len(log) > 0 /\ BackoffOf(call.attempt - 1, log[Len(log)])

\* C6: when the call has returned and every translation request it made
\* produced an empty string, it made exactly max_retries requests and no
\* assessment, and returned the original text with score 0.
C6_AllEmptyFallsBack ==
    (call.pc = "returned" /\ \A i \in Translations : log[i].outcome = Returned(<<>>)) =>
        /\ Cardinality(Translations) = max_retries
        /\ \A i \in Translations : log[i].attempt = i - 1
        /\ Assessments = {}
        /\ call.ret = <<call.text, 0>>

\* The call returned after empty results only.
C6_Witness ==
    /\ call.pc = "returned"
    /\ Translations # {}
    /\ \A i \in Translations : log[i].outcome = Returned(<<>>)

\* C7: when the first attempt produced a non-empty candidate and its
\* assessment scored at least quality_threshold, the call has returned that
\* candidate with that score and has awaited nothing else: one translation
\* request, one assessment, no backoff wait, no second attempt.
FirstAttemptGood ==
    /\ Len(log) >= 2
    /\ log[1].op = "translate"
    /\ log[1].outcome.ok
    /\ log[1].outcome.text # <<>>
    /\ log[2].op = "assess"
    /\ log[2].score >= quality_threshold

C7_AcceptFast ==
    FirstAttemptGood =>
        /\ call.pc = "returned"
        /\ call.attempt = 0
        /\ Len(log) = 2
        /\ call.ret = <<log[1].outcome.text, log[2].score>>

\* The first attempt scored exactly the threshold.
C7_Witness ==
    /\ FirstAttemptGood
    /\ log[2].score = quality_threshold

\* C8: a translation request that failed on attempt n is, when n is not the
\* last attempt, followed by the backoff wait of attempt n and then by the
\* request of attempt n + 1; when n is the last attempt it is the last
\* thing the call awaited, and the call returned the original text with
\* score 0.
C8_FailedRequest ==
    \A i \in Translations :
        log[i].outcome = Raised =>
            IF log[i].attempt < max_retries - 1
            THEN \/ i = Len(log) /\ call.pc = "backoff"
                                 /\ call.attempt = log[i].attempt
                 \/ /\ i < Len(log)
                    /\ BackoffOf(log[i].attempt, log[i + 1])
                    /\ \/ /\ i + 1 = Len(log)
                          /\ call.pc = "request"
                          /\ call.attempt = log[i].attempt + 1
                       \/ /\ i + 1 < Len(log)
                          /\ log[i + 2].op = "translate"
                          /\ log[i + 2].attempt = log[i].attempt + 1
            ELSE /\ i = Len(log)
                 /\ call.pc = "returned"
                 /\ call.ret = <<call.text, 0>>

\* The request failed on a middle attempt and again on the last one.
C8_Witness ==
    /\ call.pc = "returned"
    /\ \E i \in Translations : log[i].outcome = Raised /\ log[i].attempt = 1
    /\ \E i \in Translations :
         log[i].outcome = Raised /\ log[i].attempt = max_retries - 1

\* The number of translation requests among the first i entries of the log.
RequestNumber(i) == Cardinality({j \in Translations : j <= i})

\* C23: the first translation request of a call is issued with temperature
\* 0 and without the retry addendum; the k-th one, k > 1, which is the
\* request of attempt k - 1, with temperature 0.1 and with the addendum
\* naming attempt k; and every request of the call carries the text masked
\* with the retain terms of the call, the same on every attempt.
C23_AttemptDependentRequest ==
    \A i \in Translations :
        LET k == RequestNumber(i) IN
        /\ log[i].attempt = k - 1
        /\ log[i].temperature = (IF k = 1 THEN 0 ELSE 1)
        /\ log[i].addendum = (IF k = 1 THEN 0 ELSE k)
        /\ log[i].user_terms = call.user_terms
        /\ \A j \in Translations : log[j].content = log[i].content
        /\ log[i].content =
              (IF \E term \in Range(call.user_terms) : term = call.text
               THEN Token("UT", 0) ELSE call.text)

\* A call with a retain term that occurs in its text has issued the
\* requests of all its attempts.
C23_Witness ==
    /\ Cardinality(Translations) = max_retries
    /\ call.user_terms # <<>>
    /\ \A i \in Translations : log[i].content # call.text

\* So far every translation request returned a non-empty text and every
\* assessment request failed.
AssessorAlwaysFails ==
    /\ \A i \in Translations : log[i].outcome.ok /\ log[i].outcome.text # <<>>
    /\ \A i \in Assessments : ~log[i].response.ok

\* C24: while every translation request returns a non-empty text and every
\* assessment request fails, each assessment yields 20, the call goes
\* through request, assessment and backoff wait of attempt 0, 1, ... in
\* turn, and it returns only after the assessment of the last attempt,
\* with the candidate of that attempt and the score 20.
C24_FailedAssessorRunsAllAttempts ==
    AssessorAlwaysFails =>
        /\ \A i \in 1..Len(log) :
              /\ log[i].attempt = (i - 1) \div 3
              /\ log[i].op = (IF i % 3 = 1 THEN "translate"
                              ELSE IF i % 3 = 2 THEN "assess" ELSE "sleep")
              /\ log[i].op = "assess" => log[i].score = 20
        /\ call.pc = "returned" <=> Len(log) = 3 * max_retries - 1
        /\ call.pc = "returned" =>
              call.ret = <<log[Len(log) - 1].outcome.text, 20>>

\* The call returned a translated text with score 20 after max_retries
\* failed assessments.
C24_Witness ==
    /\ AssessorAlwaysFails
    /\ call.pc = "returned"
    /\ Cardinality(Assessments) = max_retries
    /\ call.ret[1] # call.text

\* C15: every assessment yields an integer from 0 to 40: a response that
\* holds a number yields the first number it holds, 40 when that number is
\* above 40; a response without a number and a failed request yield 20;
\* and the score of the pair that translate_text_with_quality returns is
\* from 0 to 40.
C15_ScoreWithinScale ==
    /\ \A i \in Assessments :
         /\ log[i].score \in 0..40
         /\ \A n \in RawScores :
              log[i].response = Returned(Decimal(n)) =>
                  log[i].score = IF n > 40 THEN 40 ELSE n
         /\ log[i].reply.kind = "digits" =>
              log[i].score = IF log[i].reply.n > 40 THEN 40 ELSE log[i].reply.n
         /\ log[i].reply.kind # "digits" => log[i].score = 20
         /\ (~log[i].response.ok
               \/ \A k \in 1..Len(log[i].response.text) :
                     ~IsDigit(log[i].response.text[k]))
              => log[i].reply.kind # "digits"
    /\ call.pc = "returned" => call.ret[2] \in 0..40

\* The call returned a candidate whose assessment answered 95.
C15_Witness ==
    /\ call.pc = "returned"
    /\ call.ret[2] = 40
    /\ log[Len(log)].op = "assess"
    /\ log[Len(log)].response = Returned(Decimal(95))

(***************************************************************************)
(* The segmenter and the reassembler (process_enhanced_translation, lines  *)
(* 189-202 and 231-246).  A document is a record of                        *)
(*   text        the text of every paragraph element of the file           *)
(*   paragraphs  the paragraph elements of the body, in order              *)
(*   tables      per table its rows, per row its row.cells, per cell its   *)
(*               paragraph elements; python-docx lists a merged cell once  *)
(*               per grid column it spans, so a row may hold a cell twice  *)
(*   sections    per section the paragraph elements of its header and of   *)
(*               its footer; a section linked to the previous one has the  *)
(*               header and the footer of that section                     *)
(* and a paragraph is the index of its element in text.                    *)
(***************************************************************************)
RECURSIVE Concat(_)
Concat(seqs) == IF seqs = <<>> THEN <<>> ELSE Head(seqs) \o Concat(Tail(seqs))

\* get_all_paragraphs (lines 128-137).
get_all_paragraphs(doc) ==
    doc.paragraphs
    \o Concat([t \in 1..Len(doc.tables) |->
                 Concat([r \in 1..Len(doc.tables[t]) |-> Concat(doc.tables[t][r])])])
    \o Concat([n \in 1..Len(doc.sections) |->
                 doc.sections[n].header \o doc.sections[n].footer])

CharAt(text, p) == IF p < Len(text) THEN text[p + 1] ELSE "<end>"

\* prefix_pattern.match(text) (line 191): the length of the match, -1 when
\* there is none.  The alternatives: digits and a dot, digits in
\* parentheses, a letter and a dot, a letter in parentheses; spaces before
\* and after.
PrefixMatch(text) ==
    LET p == SkipSpaces(text, 0)
        d == SkipDigits(text, p)
        q == SkipDigits(text, p + 1)
    IN IF d > p /\ CharAt(text, d) = "."
       THEN SkipSpaces(text, d + 1)
       ELSE IF CharAt(text, p) = "(" /\ q > p + 1 /\ CharAt(text, q) = ")"
       THEN SkipSpaces(text, q + 1)
       ELSE IF IsAlpha(CharAt(text, p)) /\ CharAt(text, p + 1) = "."
       THEN SkipSpaces(text, p + 2)
       ELSE IF CharAt(text, p) = "(" /\ IsAlpha(CharAt(text, p + 1))
               /\ CharAt(text, p + 2) = ")"
       THEN SkipSpaces(text, p + 3)
       ELSE -1

\* Lines 195-198 and 232-235: the prefix and the core text of a paragraph.
Prefix(text) == IF PrefixMatch(text) >= 0 THEN Slice(text, 0, PrefixMatch(text)) ELSE <<>>
CoreText(text) == Slice(text, Len(Prefix(text)), Len(text))

\* (is_translatable_nonblank: the mutation without the isalpha test.)
is_translatable_nonblank(text) ==
    /\ text # <<>>
    /\ \E i \in 1..Len(text) : ~IsSpace(text[i])

\* is_translatable (line 118).
is_translatable(text) ==
    /\ text # <<>>
    /\ \E i \in 1..Len(text) : ~IsSpace(text[i])
    /\ \E i \in 1..Len(text) : IsAlpha(text[i])

\* (EntrySetAppend: the mutation "a list of segments instead of a dict".)
EntrySetAppend(entries, key, value) == Append(entries, value)

\* texts_for_translation[core_text] = {...} on a dict kept in insertion
\* order: a key already present keeps its place and takes the new value.
EntrySet(entries, key, value) ==
    IF \E k \in 1..Len(entries) : entries[k].key = key
    THEN [k \in 1..Len(entries) |->
            IF entries[k].key = key THEN value ELSE entries[k]]
    ELSE Append(entries, value)

\* Lines 193-200 from the k-th entry of all_paragraphs on; text holds the
\* texts of the paragraph elements.
RECURSIVE Segment(_, _, _, _)
Segment(text, all_paragraphs, k, entries) ==
    IF k > Len(all_paragraphs) THEN entries
    ELSE LET p == all_paragraphs[k]
             core_text == CoreText(text[p])
         IN Segment(text, all_paragraphs, k + 1,
                    IF is_translatable(core_text)
                    THEN EntrySet(entries, core_text,
                                  [key |-> core_text, original_text |-> text[p],
                                   prefix |-> Prefix(text[p]), paragraph |-> p])
                    ELSE entries)

texts_for_translation(text, all_paragraphs) == Segment(text, all_paragraphs, 1, <<>>)

\* Line 202.
unique_texts_to_translate(text, all_paragraphs) ==
    LET entries == texts_for_translation(text, all_paragraphs)
    IN [k \in 1..Len(entries) |-> entries[k].key]

\* Lines 232-244 for one entry of all_paragraphs: a paragraph whose core
\* text is a key of the cache becomes prefix + cached translation.  d holds
\* the texts of the elements and how often each was rewritten.
RewriteParagraph(d, para, translated_cache) ==
    LET original_text == d.text[para]
        core_text == CoreText(original_text)
    IN IF core_text \in DOMAIN translated_cache
       THEN [text |-> [d.text EXCEPT
                         ![para] = Prefix(original_text) \o translated_cache[core_text]],
             rewrites |-> [d.rewrites EXCEPT ![para] = @ + 1]]
       ELSE d

\* Lines 231-244 from the k-th entry of all_paragraphs on.  (The singleton
\* set has TLC compute the document after the k-th entry once.)
RECURSIVE ReassembleFrom(_, _, _, _)
ReassembleFrom(d, all_paragraphs, k, translated_cache) ==
    IF k > Len(all_paragraphs) THEN d
    ELSE CHOOSE r \in
            {ReassembleFrom(next, all_paragraphs, k + 1, translated_cache) :
               next \in {RewriteParagraph(d, all_paragraphs[k], translated_cache)}} :
            TRUE

Reassemble(text, all_paragraphs, translated_cache) ==
    ReassembleFrom([text |-> text, rewrites |-> [p \in DOMAIN text |-> 0]],
                   all_paragraphs, 1, translated_cache)

(***************************************************************************)
(* Spec: process_enhanced_translation, the translate_task coroutines it    *)
(* hands to asyncio.as_completed, and the caller that iterates it.         *)
(*                                                                         *)
(* pipe.pc is the position of the generator:                               *)
(*   "created"    not yet iterated                                         *)
(*   "awaiting"   suspended at line 220, as_completed's queue being empty  *)
(*   "yielded"    suspended at line 225, the caller holding the pair       *)
(*   "finished"   line 247 passed, the iteration ended                     *)
(*   "failed"     docx.Document or doc.save raised                         *)
(*   "cancelled"  cancelled or closed by the caller while suspended        *)
(* task[s].pc is the position of the task of segment s:                    *)
(*   "new"        created by as_completed, not yet run                     *)
(*   "waiting"    suspended in semaphore.acquire (line 210)                *)
(*   "running"    inside translate_text_with_quality (line 211), at        *)
(*                task[s].call.pc                                          *)
(*   "postdelay"  awaiting asyncio.sleep(request_delay) (line 212)         *)
(*   "done"       returned (line 213), the semaphore released              *)
(***************************************************************************)
\* The gate is checked with concurrency_limit slots and more segments than
\* slots; line 23 sets 10.  The documents are the first n <= MaxParas
\* paragraphs of SampleParagraphs as a body (numbered and lettered
\* paragraphs, a paragraph without letters, core texts that repeat with
\* another prefix), and a document with a table and two sections.
concurrency_limit == 2
MaxParas == 5

SampleParagraphs ==
    << <<"1", ".", " ", "A">>, <<"7">>, <<"B">>, <<"A">>,
       <<"(", "2", ")", " ", "C">>, <<"(", "b", ")", " ", "B">> >>

BodyDocument(n) ==
    [text |-> SubSeq(SampleParagraphs, 1, n), paragraphs |-> [k \in 1..n |-> k],
     tables |-> <<>>, sections |-> <<>>]

\* A body paragraph "1. A"; a table of one row whose cell, merged over two
\* columns, holds "B"; two sections, the second linked to the first, with
\* the header "A" and the footer "7".
SharedDocument ==
    [text |-> SubSeq(SampleParagraphs, 1, 4), paragraphs |-> <<1>>,
     tables |-> << << << <<3>>, <<3>> >> >> >>,
     sections |-> << [header |-> <<4>>, footer |-> <<2>>],
                     [header |-> <<4>>, footer |-> <<2>>] >>]

\* Body paragraphs without a letter in their core text: "7", "(b) 7", an
\* empty one and "1. ".
DigitsDocument ==
    [text |-> << <<"7">>, <<"(", "b", ")", " ", "7">>, <<>>, <<"1", ".", " ">> >>,
     paragraphs |-> <<1, 2, 3, 4>>, tables |-> <<>>, sections |-> <<>>]

Documents ==
    {BodyDocument(n) : n \in 0..Min(MaxParas, Len(SampleParagraphs))}
        \cup {SharedDocument, DigitsDocument}

\* What the requests of the tasks produce: as TranslatedTexts and
\* AssessorReplies, with one text and one score of each kind.
PipelineTexts == {<<>>, <<"X">>}
PipelineReplies == {[kind |-> "raise", n |-> 0], [kind |-> "digits", n |-> 35]}

\* The content of a file that does not exist.
NoFile == << <<"<no file>">> >>

RECURSIVE Sum(_)
Sum(seq) == IF seq = <<>> THEN 0 ELSE Head(seq) + Sum(Tail(seq))

Total == Len(pipe.keys)

\* Job.__init__ (src/fastapi_app.py, lines 22-28); progress and avg_quality
\* are fractions, as in the pairs of the generator.
NewJob ==
    [status |-> "pending", progress |-> [num |-> 0, den |-> 1],
     avg_quality |-> [num |-> 0, den |-> 1], error |-> FALSE]

InitPipeOf(documents) ==
    /\ \E source \in documents :
         pipe = [pc |-> "created", source |-> source, text |-> <<>>,
                 all_paragraphs |-> <<>>, rewrites |-> <<>>,
                 texts_for_translation |-> <<>>,
                 keys |-> <<>>, translated_cache |-> <<>>, quality_scores |-> <<>>,
                 i |-> 0, events |-> <<>>, completed |-> <<>>,
                 saved |-> NoFile, saves |-> 0]
    /\ task = <<>>
    /\ semaphore = [value |-> concurrency_limit, waiters |-> <<>>, woken |-> {}]
    /\ doneq = <<>>
    /\ finished = <<>>
    /\ job = NewJob
    /\ call = CallIdle
    /\ log = <<>>
    /\ codec = CodecIdle

InitPipe == InitPipeOf(Documents)

\* asyncio.Semaphore.locked().
\* (LockedNever: the mutation "acquire without looking at the counter".)
LockedNever(sem) == FALSE

Locked(sem) == sem.value = 0 \/ sem.waiters # <<>>

\* asyncio.Semaphore._wake_up_next(): the first waiter not yet woken takes
\* a unit of the counter.
WakeUpNext(sem) ==
    IF \E k \in 1..Len(sem.waiters) : sem.waiters[k] \notin sem.woken
    THEN LET k == CHOOSE k \in 1..Len(sem.waiters) :
                     /\ sem.waiters[k] \notin sem.woken
                     /\ \A j \in 1..(k - 1) : sem.waiters[j] \in sem.woken
         IN [sem EXCEPT !.value = @ - 1, !.woken = @ \cup {sem.waiters[k]}]
    ELSE sem

\* (ReleaseNoWake: the mutation "release without waking a waiter".)
ReleaseNoWake(sem) == [sem EXCEPT !.value = @ + 1]

\* asyncio.Semaphore.release().
Release(sem) == WakeUpNext([sem EXCEPT !.value = @ + 1])

\* The end of asyncio.Semaphore.acquire() for a woken waiter s.
Acquired(sem, s) ==
    LET left == [sem EXCEPT !.waiters = SelectSeq(@, LAMBDA w : w # s),
                            !.woken = @ \ {s}]
    IN IF left.value > 0 THEN WakeUpNext(left) ELSE left

\* Lines 210-211 once the semaphore is held: the call of
\* translate_text_with_quality up to its first await (the runs of the
\* pipeline are those without retain terms: user_terms or []).
Admitted(s) == [pc |-> "running", call |-> StartCall(s, <<>>)]

\* (AfterCallStepNoDelay: the mutation without the sleep of line 212.)
AfterCallStepNoDelay(c) ==
    IF c.pc = "returned"
    THEN [pc |-> "done",
          call |-> [c EXCEPT !.translated_text = NoText, !.quality_score = -1]]
    ELSE [pc |-> "running", call |-> c]

\* Lines 211-212: a step of the call; when it returns, the task goes on to
\* the post-delay without suspending in between.  The locals of the call
\* end with it: the task keeps the pair returned (and the record keeps the
\* attempt that returned it).
AfterCallStep(c) ==
    IF c.pc = "returned"
    THEN [pc |-> "postdelay",
          call |-> [c EXCEPT !.translated_text = NoText, !.quality_score = -1]]
    ELSE [pc |-> "running", call |-> c]

AllStarted == \A s \in DOMAIN task : task[s].pc # "new"

\* (FinalizeNoSave: the mutation "the generator ends without doc.save".)
FinalizeNoSave(p, save_ok) ==
    LET d == Reassemble(p.text, p.all_paragraphs, p.translated_cache) IN
    [p EXCEPT !.pc = IF save_ok THEN "finished" ELSE "failed",
              !.text = d.text, !.rewrites = d.rewrites]

\* Lines 231-247: the reassembly, the save of line 246 and the end of the
\* generator, or the failure of the save.  pipe.saved is the content of the
\* file at output_path, pipe.saves the number of files written.
Finalize(p, save_ok) ==
    LET d == Reassemble(p.text, p.all_paragraphs, p.translated_cache) IN
    IF save_ok
    THEN [p EXCEPT !.pc = "finished", !.text = d.text, !.rewrites = d.rewrites,
                   !.saved = d.text, !.saves = @ + 1]
    ELSE [p EXCEPT !.pc = "failed", !.text = d.text, !.rewrites = d.rewrites]

\* round(x, 2) of a fraction, in hundredths (a half would round up; the
\* totals of the model give none).
Round2(x) == (200 * x.num + x.den) \div (2 * x.den)

\* get_status (src/fastapi_app.py, lines 129-135) for the job j.
get_status(j) ==
    [status |-> j.status, progress |-> Round2(j.progress),
     avg_quality |-> Round2(j.avg_quality)]

\* download (lines 157-160): the file at output_path is served, or the
\* answer is 400 "Not ready".
download(j, p) ==
    IF j.status # "completed" \/ p.saved = NoFile
    THEN [status_code |-> 400, file |-> NoFile]
    ELSE [status_code |-> 200, file |-> p.saved]

\* (RunJobStepCompletesOnError: the mutation "status = completed in a
\* finally clause".)
RunJobStepCompletesOnError(j, p) ==
    IF p.pc = "yielded"
    THEN [j EXCEPT !.progress = p.events[Len(p.events)].progress,
                   !.avg_quality = p.events[Len(p.events)].avg_quality]
    ELSE IF p.pc \in {"finished", "failed"}
    THEN [j EXCEPT !.status = "completed"]
    ELSE j

\* (RunJobStepProgressReset: the mutation "job.progress = 0.0 on
\* completion".)
RunJobStepProgressReset(j, p) ==
    IF p.pc = "yielded"
    THEN [j EXCEPT !.progress = p.events[Len(p.events)].progress,
                   !.avg_quality = p.events[Len(p.events)].avg_quality]
    ELSE IF p.pc = "finished"
    THEN [j EXCEPT !.status = "completed", !.progress = [num |-> 0, den |-> 1]]
    ELSE IF p.pc = "failed"
    THEN [j EXCEPT !.status = "error", !.error = TRUE]
    ELSE j

\* run_job (src/fastapi_app.py) where the generator p has just suspended or
\* ended: lines 172-173 on a pair, line 176 when the iteration is over,
\* lines 181-182 on an exception of the generator; nothing when the
\* generator awaits its tasks.
RunJobStep(j, p) ==
    IF p.pc = "yielded"
    THEN [j EXCEPT !.progress = p.events[Len(p.events)].progress,
                   !.avg_quality = p.events[Len(p.events)].avg_quality]
    ELSE IF p.pc = "finished"
    THEN [j EXCEPT !.status = "completed"]
    ELSE IF p.pc = "failed"
    THEN [j EXCEPT !.status = "error", !.error = TRUE]
    ELSE j

\* run_job, lines 163-169: the job is found and marked running.
RunJobStart ==
    /\ job.status = "pending"
    /\ job' = [job EXCEPT !.status = "running"]
    /\ UNCHANGED <<pipe, task, semaphore, doneq, finished, call, log, codec>>

\* The first iteration of the caller's async for: lines 189-220 up to the
\* first await, or lines 189-247 when there is nothing to translate.
PipeStart ==
    /\ job.status = "running"
    /\ pipe.pc = "created"
    /\ \/ /\ pipe' = [pipe EXCEPT !.pc = "failed"]
          /\ UNCHANGED task
       \/ LET all_paragraphs == get_all_paragraphs(pipe.source)
              keys == unique_texts_to_translate(pipe.source.text, all_paragraphs)
              loaded == [pipe EXCEPT !.text = pipe.source.text,
                                     !.all_paragraphs = all_paragraphs,
                                     !.rewrites = [p \in DOMAIN pipe.source.text |-> 0],
                                     !.texts_for_translation =
                                         texts_for_translation(pipe.source.text,
                                                               all_paragraphs),
                                     !.keys = keys]
          IN IF keys = <<>>
             THEN /\ \E save_ok \in BOOLEAN : pipe' = Finalize(loaded, save_ok)
                  /\ UNCHANGED task
             ELSE /\ pipe' = [loaded EXCEPT !.pc = "awaiting"]
                  /\ task' = [s \in Range(keys) |-> [pc |-> "new", call |-> CallIdle]]
    /\ job' = RunJobStep(job, pipe')
    /\ UNCHANGED <<semaphore, doneq, finished, call, log, codec>>

\* The first run of a task: line 210, and lines 211-153 when a slot is free.
TaskStart(s) ==
    /\ task[s].pc = "new"
    /\ IF Locked(semaphore)
       THEN /\ semaphore' = [semaphore EXCEPT !.waiters = Append(@, s)]
            /\ task' = [task EXCEPT ![s] = [pc |-> "waiting", call |-> CallIdle]]
       ELSE /\ semaphore' = [semaphore EXCEPT !.value = @ - 1]
            /\ task' = [task EXCEPT ![s] = Admitted(s)]
    /\ UNCHANGED <<pipe, doneq, finished, call, log, codec, job>>

\* A waiter that release() woke resumes: the rest of acquire(), then lines
\* 211-153.
TaskAcquires(s) ==
    /\ task[s].pc = "waiting"
    /\ s \in semaphore.woken
    /\ semaphore' = Acquired(semaphore, s)
    /\ task' = [task EXCEPT ![s] = Admitted(s)]
    /\ UNCHANGED <<pipe, doneq, finished, call, log, codec, job>>

TaskTranslationReturns(s) ==
    /\ AllStarted
    /\ task[s].pc = "running" /\ task[s].call.pc = "request"
    /\ \E t \in PipelineTexts :
         task' = [task EXCEPT ![s] = AfterCallStep(TranslationReturns(task[s].call, t))]
    /\ UNCHANGED <<pipe, semaphore, doneq, finished, call, log, codec, job>>

TaskTranslationFails(s) ==
    /\ AllStarted
    /\ task[s].pc = "running" /\ task[s].call.pc = "request"
    /\ task' = [task EXCEPT ![s] = AfterCallStep(TranslationFails(task[s].call))]
    /\ UNCHANGED <<pipe, semaphore, doneq, finished, call, log, codec, job>>

TaskAssessReturns(s) ==
    /\ AllStarted
    /\ task[s].pc = "running" /\ task[s].call.pc = "assess"
    /\ \E reply \in PipelineReplies :
         task' = [task EXCEPT ![s] =
                    AfterCallStep(AssessReturns(task[s].call,
                                                validate_translation_quality(reply)))]
    /\ UNCHANGED <<pipe, semaphore, doneq, finished, call, log, codec, job>>

TaskBackoffElapses(s) ==
    /\ AllStarted
    /\ task[s].pc = "running" /\ task[s].call.pc = "backoff"
    /\ task' = [task EXCEPT ![s] = AfterCallStep(BackoffElapses(task[s].call))]
    /\ UNCHANGED <<pipe, semaphore, doneq, finished, call, log, codec, job>>

\* Line 212 elapsed: the semaphore is released on leaving the async with,
\* the task returns (line 213) and as_completed queues it.
TaskPostDelayElapses(s) ==
    /\ AllStarted
    /\ task[s].pc = "postdelay"
    /\ semaphore' = Release(semaphore)
    /\ task' = [task EXCEPT ![s].pc = "done"]
    /\ doneq' = Append(doneq, s)
    /\ finished' = Append(finished, s)
    /\ UNCHANGED <<pipe, call, log, codec, job>>

\* as_completed's next finished task.
\* (NextDoneLast: the mutation "take the most recently finished task".)
NextDoneLast(q) == q[Len(q)]

NextDone(q) == Head(q)

\* (ConsumeAverageOfAll: the mutation "sum(quality_scores) / total_texts".)
ConsumeAverageOfAll(p, s) ==
    LET scores == Append(p.quality_scores, task[s].call.ret[2]) IN
    [p EXCEPT !.pc = "yielded",
              !.translated_cache = [k \in DOMAIN @ \cup {s} |->
                                      IF k = s THEN task[s].call.ret[1] ELSE @[k]],
              !.quality_scores = scores,
              !.i = @ + 1,
              !.completed = Append(@, s),
              !.events = Append(@, [progress |-> [num |-> (p.i + 1) * 100,
                                                  den |-> Len(p.keys)],
                                    avg_quality |-> [num |-> Sum(scores),
                                                     den |-> Len(p.keys)]])]

\* Lines 220-225 for the finished task of segment s: the cache entry, the
\* score, the pair yielded.  Progress and average are kept as fractions.
Consume(p, s) ==
    LET scores == Append(p.quality_scores, task[s].call.ret[2]) IN
    [p EXCEPT !.pc = "yielded",
              !.translated_cache = [k \in DOMAIN @ \cup {s} |->
                                      IF k = s THEN task[s].call.ret[1] ELSE @[k]],
              !.quality_scores = scores,
              !.i = @ + 1,
              !.completed = Append(@, s),
              !.events = Append(@, [progress |-> [num |-> (p.i + 1) * 100,
                                                  den |-> Len(p.keys)],
                                    avg_quality |-> [num |-> Sum(scores),
                                                     den |-> Len(scores)]])]

\* The generator, suspended at line 220, is woken by a finished task.
PipeWakes ==
    /\ AllStarted
    /\ pipe.pc = "awaiting"
    /\ doneq # <<>>
    /\ pipe' = Consume(pipe, NextDone(doneq))
    /\ doneq' = SelectSeq(doneq, LAMBDA s : s # NextDone(doneq))
    /\ job' = RunJobStep(job, pipe')
    /\ UNCHANGED <<task, semaphore, finished, call, log, codec>>

\* The caller asks for the next pair: the loop of line 219 goes on with a
\* task that has finished meanwhile, suspends at line 220, or ends and
\* lines 227-247 run.
PipeResumes ==
    /\ AllStarted
    /\ pipe.pc = "yielded"
    /\ IF pipe.i = Total
       THEN /\ \E save_ok \in BOOLEAN : pipe' = Finalize(pipe, save_ok)
            /\ UNCHANGED doneq
       ELSE IF doneq # <<>>
       THEN /\ pipe' = Consume(pipe, NextDone(doneq))
            /\ doneq' = SelectSeq(doneq, LAMBDA s : s # NextDone(doneq))
       ELSE /\ pipe' = [pipe EXCEPT !.pc = "awaiting"]
            /\ UNCHANGED doneq
    /\ job' = RunJobStep(job, pipe')
    /\ UNCHANGED <<task, semaphore, finished, call, log, codec>>

\* The caller is cancelled while it iterates, or abandons the generator:
\* the generator ends at its suspension point.  asyncio.as_completed leaves
\* the tasks it created running.  run_job catches Exception only, so the
\* job keeps the status it had.
PipeCancelled ==
    /\ AllStarted
    /\ pipe.pc \in {"awaiting", "yielded"}
    /\ pipe' = [pipe EXCEPT !.pc = "cancelled"]
    /\ UNCHANGED <<task, semaphore, doneq, finished, call, log, codec, job>>

Next ==
    \/ RunJobStart
    \/ PipeStart
    \/ \E s \in DOMAIN task : TaskStart(s)
    \/ \E s \in DOMAIN task : TaskAcquires(s)
    \/ \E s \in DOMAIN task : TaskTranslationReturns(s)
    \/ \E s \in DOMAIN task : TaskTranslationFails(s)
    \/ \E s \in DOMAIN task : TaskAssessReturns(s)
    \/ \E s \in DOMAIN task : TaskBackoffElapses(s)
    \/ \E s \in DOMAIN task : TaskPostDelayElapses(s)
    \/ PipeWakes
    \/ PipeResumes
    \/ PipeCancelled

Spec == InitPipe /\ [][Next]_vars

(***************************************************************************)
(* SpecLive: Spec with what the event loop and the services guarantee.     *)
(* While tasks are ready one of them runs; while timers are pending one    *)
(* elapses; while requests are pending one returns or raises; the caller,  *)
(* unless it is cancelled, asks for the next pair.  Nothing obliges the    *)
(* caller to be cancelled, the document to load or the save to succeed.    *)
(* The documents: an empty one, SharedDocument, and all of                 *)
(* SampleParagraphs (three segments).                                      *)
(***************************************************************************)
LiveDocuments ==
    {BodyDocument(0), SharedDocument, BodyDocument(Len(SampleParagraphs))}

SpecLive ==
    /\ InitPipeOf(LiveDocuments)
    /\ [][Next]_vars
    /\ WF_vars(RunJobStart)
    /\ WF_vars(PipeStart)
    /\ WF_vars(PipeWakes)
    /\ WF_vars(PipeResumes)
    /\ WF_vars(\E s \in DOMAIN task : TaskStart(s))
    /\ WF_vars(\E s \in DOMAIN task : TaskAcquires(s))
    /\ WF_vars(\E s \in DOMAIN task :
                  TaskTranslationReturns(s) \/ TaskTranslationFails(s))
    /\ WF_vars(\E s \in DOMAIN task : TaskAssessReturns(s))
    /\ WF_vars(\E s \in DOMAIN task : TaskBackoffElapses(s))
    /\ WF_vars(\E s \in DOMAIN task : TaskPostDelayElapses(s))

(***************************************************************************)
(* SpecReassembly: lines 231-246 alone, one entry of all_paragraphs per    *)
(* step, from the state the loop of lines 219-225 leaves behind: every     *)
(* distinct translatable core text is a key of translated_cache.  A value  *)
(* is what translate_text_with_quality returned for the key: a new text,   *)
(* or a text that is also the core text of a paragraph (the original on a  *)
(* fallback, or a translation that happens to equal another paragraph).    *)
(***************************************************************************)
CacheTexts == {<<"X">>, <<"A">>, <<"B">>}

InitReassembly ==
    /\ \E source \in Documents :
         LET all_paragraphs == get_all_paragraphs(source)
             keys == unique_texts_to_translate(source.text, all_paragraphs)
         IN \E translated_cache \in [Range(keys) -> CacheTexts] :
               pipe = [pc |-> "reassembling", source |-> source,
                       text |-> source.text, all_paragraphs |-> all_paragraphs,
                       rewrites |-> [p \in DOMAIN source.text |-> 0],
                       keys |-> keys, translated_cache |-> translated_cache,
                       k |-> 1, saved |-> NoFile, saves |-> 0]
    /\ task = <<>>
    /\ semaphore = SemaphoreIdle
    /\ doneq = <<>>
    /\ finished = <<>>
    /\ job = JobIdle
    /\ call = CallIdle
    /\ log = <<>>
    /\ codec = CodecIdle

\* Lines 231-244 for the k-th entry of all_paragraphs.
RewriteNext ==
    /\ pipe.pc = "reassembling"
    /\ pipe.k <= Len(pipe.all_paragraphs)
    /\ LET d == RewriteParagraph([text |-> pipe.text, rewrites |-> pipe.rewrites],
                                 pipe.all_paragraphs[pipe.k], pipe.translated_cache)
       IN pipe' = [pipe EXCEPT !.text = d.text, !.rewrites = d.rewrites,
                               !.k = @ + 1]
    /\ UNCHANGED <<task, semaphore, doneq, finished, call, log, codec, job>>

\* Line 246 after the loop: the file is written, or doc.save raises.
SaveDocument ==
    /\ pipe.pc = "reassembling"
    /\ pipe.k > Len(pipe.all_paragraphs)
    /\ \/ pipe' = [pipe EXCEPT !.pc = "finished", !.saved = pipe.text,
                               !.saves = @ + 1]
       \/ pipe' = [pipe EXCEPT !.pc = "failed"]
    /\ UNCHANGED <<task, semaphore, doneq, finished, call, log, codec, job>>

NextReassembly ==
    \/ RewriteNext
    \/ SaveDocument

SpecReassembly == InitReassembly /\ [][NextReassembly]_vars

\* C19: once reassembly is over, a paragraph whose core text is a key of the
\* translation cache holds its prefix followed by the cached translation of
\* that core text, and every other paragraph holds its original text.
C19_PrefixPlusCached ==
    pipe.pc = "finished" =>
        \A x \in DOMAIN pipe.source.text :
            LET original_text == pipe.source.text[x]
                core_text == CoreText(original_text)
            IN pipe.text[x] =
                  IF core_text \in DOMAIN pipe.translated_cache
                  THEN Prefix(original_text) \o pipe.translated_cache[core_text]
                  ELSE original_text

(***************************************************************************)
(* Properties of process_enhanced_translation, checked under Spec.         *)
(***************************************************************************)
\* The segments inside the async with of line 210: translating, or in
\* their post-delay wait.
InRegion == {s \in DOMAIN task : task[s].pc \in {"running", "postdelay"}}
Queued == {s \in DOMAIN task : task[s].pc = "waiting"}

\* C1: at every point of process_enhanced_translation at most
\* concurrency_limit segments are inside the admission region (translating
\* or in their post-delay wait), and each of them holds a slot of the
\* semaphore: the free slots, the slots handed to woken waiters and the
\* segments in the region add up to concurrency_limit, so a segment's
\* translation call starts only with a slot that was free.
C1_AdmissionBound ==
    /\ Cardinality(InRegion) <= concurrency_limit
    /\ semaphore.value >= 0
    /\ semaphore.value + Cardinality(semaphore.woken) + Cardinality(InRegion)
         = concurrency_limit

\* The region is full, one of its segments is in its post-delay wait, and
\* a segment is queued.
C1_Witness ==
    /\ Cardinality(InRegion) = concurrency_limit
    /\ \E s \in InRegion : task[s].pc = "postdelay"
    /\ \E s \in InRegion : task[s].pc = "running" /\ task[s].call.attempt > 0
    /\ Queued # {}

\* C2: the pairs yielded so far are one per segment consumed, in the order
\* in which the tasks finished; the j-th pair reports j of the k segments,
\* so the fraction strictly increases; no segment is reported twice; and
\* when the generator has finished, k pairs were yielded, every segment was
\* reported, and the last pair reports 100%.
C2_ProgressEvents ==
    /\ Len(pipe.events) = Len(pipe.completed)
    /\ Len(pipe.events) = pipe.i
    /\ pipe.i <= Total
    /\ pipe.completed = SubSeq(finished, 1, Len(pipe.completed))
    /\ \A j \in 1..Len(pipe.events) :
         pipe.events[j].progress = [num |-> 100 * j, den |-> Total]
    /\ \A j \in 1..(Len(pipe.events) - 1) :
         pipe.events[j].progress.num * pipe.events[j + 1].progress.den
            < pipe.events[j + 1].progress.num * pipe.events[j].progress.den
    /\ \A j, l \in 1..Len(pipe.completed) :
         j # l => pipe.completed[j] # pipe.completed[l]
    /\ (pipe.pc = "finished" /\ Total >= 1) =>
         /\ Len(pipe.events) = Total
         /\ Range(pipe.completed) = Range(pipe.keys)
         /\ pipe.events[Total].progress.num = 100 * pipe.events[Total].progress.den

\* The generator finished a document of three segments that finished in
\* another order than they were submitted in.
C2_Witness ==
    /\ pipe.pc = "finished"
    /\ Total = 3
    /\ Len(pipe.events) = 3
    /\ pipe.completed # pipe.keys

\* C10: once the generator has been cancelled or abandoned, no queued
\* segment is admitted: a segment waiting for the semaphore stays waiting.
C10_NoAdmissionAfterCancel ==
    [][pipe.pc = "cancelled" =>
         \A s \in DOMAIN task : task[s].pc = "waiting" => task'[s].pc = "waiting"]_vars

\* C11 as stated: the progress sequence holds at most k pairs, the k-th
\* reports 100%, and once the k-th pair has been yielded the file at
\* output_path exists.
C11_SavedOnceLastPairEmitted ==
    /\ Len(pipe.events) <= Total
    /\ (Total >= 1 /\ Len(pipe.events) = Total) =>
         /\ pipe.events[Total].progress = [num |-> 100 * Total, den |-> Total]
         /\ pipe.saved # NoFile

\* C11, amended: the progress sequence holds at most k pairs; the file at
\* output_path is written when the iteration ends normally and not before,
\* so it does not exist while the caller holds a pair, the last included;
\* when the iteration has ended normally the file holds the reassembled
\* document and, if there was a segment, k pairs were yielded and the last
\* reported 100%.
C11_SavedWhenFinished ==
    /\ Len(pipe.events) <= Total
    /\ pipe.pc = "finished" =>
         /\ pipe.saved # NoFile
         /\ pipe.saved = pipe.text
         /\ Total >= 1 =>
              /\ Len(pipe.events) = Total
              /\ pipe.events[Total].progress = [num |-> 100 * Total, den |-> Total]
    /\ pipe.pc # "finished" => pipe.saved = NoFile

\* The iteration over a document of three segments ended normally and the
\* file differs from the source.
C11_Witness ==
    /\ pipe.pc = "finished"
    /\ Total = 3
    /\ pipe.saved # pipe.source.text

\* Every segment has been translated and cached: its task has returned and
\* the generator has stored its result.
AllCached ==
    /\ \A s \in DOMAIN task : task[s].pc = "done"
    /\ DOMAIN pipe.translated_cache = Range(pipe.keys)

\* C12: a paragraph is rewritten only when every segment has been translated
\* and cached, each paragraph element is rewritten at most once, and the
\* document is saved at most once, exactly once when the generator has
\* finished, with all the rewrites in the file.
C12_MutatedOnceAfterAllCached ==
    /\ (\E p \in DOMAIN pipe.rewrites : pipe.rewrites[p] > 0) => AllCached
    /\ (pipe.text # <<>> /\ pipe.text # pipe.source.text) => AllCached
    /\ \A p \in DOMAIN pipe.rewrites : pipe.rewrites[p] <= 1
    /\ pipe.saves <= 1
    /\ pipe.pc = "finished" => pipe.saves = 1 /\ pipe.saved = pipe.text

\* The translatable core texts of the paragraphs of document d.
CoreTexts(d) ==
    {CoreText(d.text[p]) : p \in {q \in Range(get_all_paragraphs(d)) :
                                     is_translatable(CoreText(d.text[q]))}}

\* How often segment s was written to the cache (line 221).
CacheWrites(s) == Cardinality({j \in 1..Len(pipe.completed) : pipe.completed[j] = s})

\* C13: the segments submitted are the distinct translatable core texts of
\* the document, each once, however many paragraphs share a core text;
\* there is one translate_task per segment, which enters
\* translate_text_with_quality once and for that segment; and the cache is
\* written at most once per segment, exactly once for every segment when
\* the generator has finished.
C13_OneTaskAndOneWritePerCoreText ==
    /\ [](pipe.text # <<>> =>
            /\ Range(pipe.keys) = CoreTexts(pipe.source)
            /\ Len(pipe.keys) = Cardinality(CoreTexts(pipe.source))
            /\ DOMAIN task = Range(pipe.keys))
    /\ [](\A s \in Range(pipe.keys) :
            /\ CacheWrites(s) <= 1
            /\ s \in DOMAIN pipe.translated_cache <=> CacheWrites(s) = 1
            /\ pipe.pc = "finished" => CacheWrites(s) = 1)
    /\ [][\A s \in DOMAIN task :
            task[s].pc \notin {"new", "waiting"} =>
                /\ task'[s].pc \notin {"new", "waiting"}
                /\ task'[s].call.text = s]_vars

\* The generator finished a document in which two paragraphs share a core
\* text under different prefixes.
C13_Witness ==
    /\ pipe.pc = "finished"
    /\ Total = 3
    /\ \E p, q \in Range(pipe.all_paragraphs) :
         /\ p # q
         /\ pipe.source.text[p] # pipe.source.text[q]
         /\ CoreText(pipe.source.text[p]) = CoreText(pipe.source.text[q])
         /\ CoreText(pipe.source.text[p]) \in Range(pipe.keys)

\* The sum of the scores returned for the first j segments consumed.
RECURSIVE ScoreSum(_)
ScoreSum(j) ==
    IF j = 0 THEN 0 ELSE ScoreSum(j - 1) + task[pipe.completed[j]].call.ret[2]

\* C16: the j-th pair reports the mean of the scores of the first j segments
\* completed (their sum over j) and the fraction j / k as a percentage; so
\* the average is from 0 to 40 and the percentage above 0 and at most 100.
C16_RunningAverage ==
    \A j \in 1..Len(pipe.events) :
        LET e == pipe.events[j] IN
        /\ e.avg_quality = [num |-> ScoreSum(j), den |-> j]
        /\ e.progress = [num |-> 100 * j, den |-> Total]
        /\ 0 <= e.avg_quality.num
        /\ e.avg_quality.num <= 40 * e.avg_quality.den
        /\ 0 < e.progress.num
        /\ e.progress.num <= 100 * e.progress.den

\* Three pairs were yielded for segments with three different scores.
C16_Witness ==
    /\ Len(pipe.events) = 3
    /\ Cardinality({task[s].call.ret[2] : s \in Range(pipe.completed)}) = 3
    /\ pipe.events[2].avg_quality.num # 2 * pipe.events[1].avg_quality.num

\* The first position of all_paragraphs whose paragraph has the core text.
FirstSeen(core_text) ==
    CHOOSE k \in 1..Len(pipe.all_paragraphs) :
        /\ CoreText(pipe.source.text[pipe.all_paragraphs[k]]) = core_text
        /\ \A j \in 1..(k - 1) :
               CoreText(pipe.source.text[pipe.all_paragraphs[j]]) # core_text

\* C22: the entry of texts_for_translation for a core text holds the
\* original text, the prefix and the paragraph of the first paragraph of
\* all_paragraphs that has this core text.
C22_FirstSeenEntry ==
    \A n \in 1..Len(pipe.texts_for_translation) :
        LET entry == pipe.texts_for_translation[n]
            para == pipe.all_paragraphs[FirstSeen(entry.key)]
        IN /\ entry.paragraph = para
           /\ entry.original_text = pipe.source.text[para]
           /\ entry.prefix = Prefix(pipe.source.text[para])

\* The slots of the semaphore that no segment in the region holds: the
\* counter and the units handed to woken waiters.
FreeSlots == semaphore.value + Cardinality(semaphore.woken)

\* C21: a segment in its post-delay wait has its pair from
\* translate_text_with_quality and still holds its slot; a slot is given
\* back only by a segment whose post-delay wait elapses, which ends the
\* task; and a segment enters the region only when fewer than
\* concurrency_limit segments are translating or in their post-delay wait.
C21_PostDelayInsideRegion ==
    /\ [](\A s \in DOMAIN task :
             task[s].pc = "postdelay" =>
                 /\ task[s].call.pc = "returned" /\ task[s].call.ret # NoRet
                 /\ s \in InRegion
                 /\ FreeSlots + Cardinality(InRegion) = concurrency_limit)
    /\ [][/\ FreeSlots' > FreeSlots =>
                \E s \in DOMAIN task :
                    /\ task[s].pc = "postdelay" /\ task'[s].pc = "done"
                    /\ FreeSlots' = FreeSlots + 1
          /\ \A s \in DOMAIN task \cap DOMAIN task' :
                /\ (task[s].pc # "done" /\ task'[s].pc = "done")
                       => task[s].pc = "postdelay"
                /\ (task[s].pc \in {"new", "waiting"} /\ task'[s].pc = "running")
                       => Cardinality(InRegion) < concurrency_limit]_vars

\* Every slot is held by a segment in its post-delay wait while another
\* segment is queued.
C21_Witness ==
    /\ semaphore.value = 0 /\ semaphore.woken = {}
    /\ Cardinality(InRegion) = concurrency_limit
    /\ \A s \in InRegion : task[s].pc = "postdelay"
    /\ Queued # {}

(***************************************************************************)
(* Properties of run_job and of the endpoints, checked under Spec.         *)
(***************************************************************************)
\* C25: the status of a job changes only from pending to running and from
\* running to completed or to error; it is completed only when the
\* generator has ended after saving the document, and error when the
\* generator raised (docx.Document or doc.save failed); the download
\* endpoint serves a file only for a job whose generator has saved it, and
\* the file served is the saved document.
C25_StatusFollowsPipeline ==
    /\ [][job'.status # job.status =>
             <<job.status, job'.status>> \in
                 {<<"pending", "running">>, <<"running", "completed">>,
                  <<"running", "error">>}]_vars
    /\ [](job.status = "completed" =>
             pipe.pc = "finished" /\ pipe.saves = 1 /\ pipe.saved = pipe.text)
    /\ [](pipe.pc = "finished" => job.status = "completed")
    /\ [](pipe.pc = "failed" <=> job.status = "error")
    /\ [](download(job, pipe).status_code = 200 =>
             /\ pipe.pc = "finished" /\ pipe.saves = 1
             /\ download(job, pipe).file = pipe.text)

\* The save failed after every segment was reported, and the job is in
\* error with the download refused.
C25_Witness ==
    /\ job.status = "error"
    /\ Total > 0 /\ Len(pipe.events) = Total
    /\ download(job, pipe).status_code = 400

\* C26: a completed job has the stored progress 100, which the status
\* endpoint returns (10000 hundredths).
C26_CompletedAtHundred ==
    job.status = "completed" =>
        /\ job.progress.num = 100 * job.progress.den
        /\ get_status(job).progress = 10000

\* No paragraph of the document has a letter in its core text.
ZeroSegments(doc) ==
    \A x \in Range(get_all_paragraphs(doc)) :
        ~\E c \in Range(CoreText(doc.text[x])) : IsAlpha(c)

\* C20: for a document without a letter in any core text the generator
\* yields no pair and creates no task, so that no request is issued; it ends
\* within its first step, and unless docx.Document or doc.save raised, the
\* file is written once with every paragraph as it was in the source.
C20_ZeroSegments ==
    ZeroSegments(pipe.source) =>
        /\ pipe.events = <<>>
        /\ task = <<>> /\ doneq = <<>> /\ finished = <<>>
        /\ pipe.pc \in {"created", "finished", "failed"}
        /\ pipe.saves = (IF pipe.pc = "finished" THEN 1 ELSE 0)
        /\ pipe.pc = "finished" =>
              /\ pipe.text = pipe.source.text
              /\ pipe.saved = pipe.source.text
              /\ \A x \in DOMAIN pipe.rewrites : pipe.rewrites[x] = 0

\* A document with paragraphs, one of them with a letter in its prefix
\* only, was saved.
C20_Witness ==
    /\ ZeroSegments(pipe.source)
    /\ pipe.pc = "finished"
    /\ \E x \in DOMAIN pipe.source.text :
          \E c \in Range(Prefix(pipe.source.text[x])) : IsAlpha(c)

(***************************************************************************)
(* Termination, checked under SpecLive.                                    *)
(***************************************************************************)
AllDone == \A s \in DOMAIN task : task[s].pc = "done"

\* C14 as stated: when every request returns or fails, all k pairs are
\* eventually yielded and the document is eventually saved.
C14_EventuallySaved ==
    <>(pipe.pc = "finished" /\ Len(pipe.events) = Total /\ pipe.saves = 1)

\* C14, amended: the pipeline terminates.  Every task ends, having made at
\* most max_retries attempts, and releases its slot, so no segment stays
\* queued and in the end all slots are free; and the generator ends: with
\* all k pairs yielded and the document saved, unless the caller was
\* cancelled or the document could not be loaded or saved.
C14_Terminates ==
    <>[](/\ AllDone
         /\ \A s \in DOMAIN task : task[s].call.attempt < max_retries
         /\ semaphore = [value |-> concurrency_limit, waiters |-> <<>>,
                         woken |-> {}]
         /\ pipe.pc \in {"finished", "failed", "cancelled"}
         /\ pipe.pc = "finished" =>
              /\ Len(pipe.events) = Total
              /\ pipe.saves = 1)

\* A queued segment was admitted after a segment that had used all its
\* attempts left the region, and the generator finished.
C14_Witness ==
    /\ pipe.pc = "finished"
    /\ Total > concurrency_limit
    /\ \E s \in DOMAIN task :
         /\ task[s].call.attempt = max_retries - 1
         /\ task[s].call.ret[2] = 0
         /\ \E j \in 1..Len(finished) : finished[j] = s /\ j < Len(finished)

====
